---- MODULE Spec2Model ----
\* Model of ivc-agent/agent.py: the scripted dialog (IVCAgent.respond), the
\* inbound endpoint (voice), the ambulance selector (assign_ambulance), the
\* report sink (generate_report), the notification sender (send_sms_summary)
\* and the outbound call operation (make_call).
\*
\* Text is a sequence of character codes (ASCII), so that str.lower() and the
\* substring test `keyword in description` are computed, not assumed.
\* Python's None is the empty tuple; a present text value s is the 1-tuple <<s>>.
EXTENDS Integers, Sequences, FiniteSets, TLC

VARIABLES
    state,      \* agent.state
    details,    \* agent.details: a dict, modelled as a function on its keys
    clock,      \* number of datetime.now() readings made by IVCAgent.__init__
    csvfile,    \* call_report.csv: [exists, rows]
    sms,        \* messages submitted to client.messages.create, in order
    resp,       \* what the last /voice request returned
    printed,    \* what the last operation printed on the operator's console
    last,       \* the last /voice request handled: call, first, pre, input
    started,    \* calls whose first request has reached /voice
    env,        \* os.environ: TWILIO_ACCOUNT_SID, TWILIO_AUTH_TOKEN, TWILIO_PHONE_NUMBER
    placed,     \* requests submitted to client.calls.create, in order
    mc,         \* make_call: "idle", "returned" or "raised"
    selDesc,    \* argument of a direct call of assign_ambulance
    selAmb,     \* its result (None before the call)
    written,    \* call_details of the generate_report calls that completed
    pc          \* where each request thread of the server is inside voice()

vars == <<state, details, clock, csvfile, sms, resp, printed, last, started,
          env, placed, mc, selDesc, selAmb, written, pc>>

-----------------------------------------------------------------------------
\* Bounds of the model.

\* number of calls that reach the inbound endpoint
MaxCalls == 2
\* number of outcomes of the three random draws of assign_ambulance followed
NumDraws == 4
\* number of direct generate_report calls in SpecLog
MaxWrites == 3
\* length of the text put before and after a word in SpecSelector
MaxPad == 1
\* number of requests the server handles at the same time in SpecThreads
NumThreads == 2

-----------------------------------------------------------------------------
\* Values.

None == <<>>
Str(s) == <<s>>

\* "accident"
kw_accident == <<97, 99, 99, 105, 100, 101, 110, 116>>
\* "multiple injuries"
kw_multiple_injuries == <<109, 117, 108, 116, 105, 112, 108, 101, 32, 105, 110, 106, 117, 114, 105, 101, 115>>
\* "high blood loss"
kw_high_blood_loss == <<104, 105, 103, 104, 32, 98, 108, 111, 111, 100, 32, 108, 111, 115, 115>>
\* "unconscious"
kw_unconscious == <<117, 110, 99, 111, 110, 115, 99, 105, 111, 117, 115>>
\* "critical"
kw_critical == <<99, 114, 105, 116, 105, 99, 97, 108>>
\* "severe"
kw_severe == <<115, 101, 118, 101, 114, 101>>
\* "chest pain"
kw_chest_pain == <<99, 104, 101, 115, 116, 32, 112, 97, 105, 110>>

icu_keywords == {kw_accident, kw_multiple_injuries, kw_high_blood_loss,
                 kw_unconscious, kw_critical, kw_severe, kw_chest_pain}

\* "Basic Life Support Ambulance"
BasicType == <<66, 97, 115, 105, 99, 32, 76, 105, 102, 101, 32, 83, 117, 112, 112, 111, 114, 116, 32, 65, 109, 98, 117, 108, 97, 110, 99, 101>>
\* "ICU - Super Speciality Ambulance"
IcuType == <<73, 67, 85, 32, 45, 32, 83, 117, 112, 101, 114, 32, 83, 112, 101, 99, 105, 97, 108, 105, 116, 121, 32, 65, 109, 98, 117, 108, 97, 110, 99, 101>>

\* "Rajesh Kumar"
drv_Rajesh == <<82, 97, 106, 101, 115, 104, 32, 75, 117, 109, 97, 114>>
\* "Suresh Singh"
drv_Suresh == <<83, 117, 114, 101, 115, 104, 32, 83, 105, 110, 103, 104>>
\* "Anil Sharma"
drv_Anil == <<65, 110, 105, 108, 32, 83, 104, 97, 114, 109, 97>>
\* "Vikas Patel"
drv_Vikas == <<86, 105, 107, 97, 115, 32, 80, 97, 116, 101, 108>>
drivers == <<drv_Rajesh, drv_Suresh, drv_Anil, drv_Vikas>>

\* "WB 01 AB 1234"
plate_1 == <<87, 66, 32, 48, 49, 32, 65, 66, 32, 49, 50, 51, 52>>
\* "WB 02 CD 5678"
plate_2 == <<87, 66, 32, 48, 50, 32, 67, 68, 32, 53, 54, 55, 56>>
\* "WB 03 EF 9101"
plate_3 == <<87, 66, 32, 48, 51, 32, 69, 70, 32, 57, 49, 48, 49>>
\* "WB 04 GH 1121"
plate_4 == <<87, 66, 32, 48, 52, 32, 71, 72, 32, 49, 49, 50, 49>>
car_plates == <<plate_1, plate_2, plate_3, plate_4>>

\* "+91 98765 "
DriverPrefix == <<43, 57, 49, 32, 57, 56, 55, 54, 53, 32>>
RandLo == 10000
RandHi_exclusive == RandLo * 10
RandHi == 99999
\* values of random.randint(RandLo, RandHi): both ends and the middle
RandInts == <<RandLo, RandHi, (RandLo + RandHi) \div 2>>

\* the outcomes of the three random draws of one assign_ambulance call that
\* the model follows: the k-th takes the plates in turn, shifts the driver
\* by one after each round of plates, and takes the integers in turn
RandomDraws ==
    {[plate |-> car_plates[(k % Len(car_plates)) + 1],
      driver |-> drivers[((k + k \div Len(car_plates)) % Len(drivers)) + 1],
      n |-> RandInts[(k % Len(RandInts)) + 1]] : k \in 0..(NumDraws - 1)}

\* "None", what an f-string prints for None
txt_None == <<78, 111, 110, 101>>
\* "Chest Pain"
txt_ChestPain == <<67, 104, 101, 115, 116, 32, 80, 97, 105, 110>>
\* "routine checkup"
txt_routine == <<114, 111, 117, 116, 105, 110, 101, 32, 99, 104, 101, 99, 107, 117, 112>>

\* SpeechResult of a request: absent (None), empty, or a text
Utterances == {None, Str(<<>>), Str(txt_ChestPain), Str(txt_routine)}

Calls == 1..MaxCalls
\* the To field of the requests of call c: "+911", "+912", ...
To(c) == Str(<<43, 57, 49, 48 + c>>)

\* "/voice"
txt_voice == <<47, 118, 111, 105, 99, 101>>

-----------------------------------------------------------------------------
\* Text operations.

LowerChar_identity(ch) == ch

\* str.lower() on one ASCII character
LowerChar(ch) == IF ch \in 65..90 THEN ch + 32 ELSE ch
\* str.lower()
Lower(s) == [i \in 1..Len(s) |-> LowerChar(s[i])]

\* `k in s` for two texts
Contains(s, k) ==
    \E i \in 0..(Len(s) - Len(k)) : \A j \in 1..Len(k) : s[i + j] = k[j]

\* str(n) for n >= 0
RECURSIVE Digits(_)
Digits(n) == IF n < 10 THEN <<48 + n>> ELSE Digits(n \div 10) \o <<48 + (n % 10)>>

\* dict.get(k) and dict.get(k, dflt)
Get(d, k) == IF k \in DOMAIN d THEN d[k] ELSE None
GetDefault(d, k, dflt) == IF k \in DOMAIN d THEN d[k] ELSE dflt
\* d[k] = v
Put(d, k, v) == (k :> v) @@ d
\* f"{v}" for a value that is a text or None
Fmt(v) == IF v = None THEN txt_None ELSE v[1]

-----------------------------------------------------------------------------
\* assign_ambulance(description); plate, driver and n are the three random draws

assign_ambulance(description, plate, driver, n) ==
    LET lowered == Lower(description)
        ambulance_type == IF \E keyword \in icu_keywords : Contains(lowered, keyword)
                          THEN IcuType ELSE BasicType
    IN  [type |-> ambulance_type,
         car_number |-> plate,
         driver_name |-> driver,
         driver_number |-> DriverPrefix \o Digits(n)]

-----------------------------------------------------------------------------
\* generate_report(call_details)

fieldnames == <<"call_time", "user_phone", "emergency_type", "description", "location",
                "ambulance_type", "ambulance_car_number", "driver_name", "driver_number">>

\* call_details.get('ambulance', {}).get(f)
AmbGet(call_details, f) ==
    IF "ambulance" \in DOMAIN call_details THEN Str(call_details["ambulance"][f]) ELSE None

\* what csv.DictWriter writes in a cell: '' for None, the text otherwise
Cell(v) == IF v = None THEN <<>> ELSE v[1]

HeaderRow == <<"header", fieldnames>>

DataRow(call_details) ==
    <<"row", [call_time |-> Cell(Get(call_details, "time")),
              user_phone |-> Cell(Get(call_details, "user_phone")),
              emergency_type |-> Cell(Get(call_details, "emergency_type")),
              description |-> Cell(Get(call_details, "description")),
              location |-> Cell(Get(call_details, "location")),
              ambulance_type |-> Cell(AmbGet(call_details, "type")),
              ambulance_car_number |-> Cell(AmbGet(call_details, "car_number")),
              driver_name |-> Cell(AmbGet(call_details, "driver_name")),
              driver_number |-> Cell(AmbGet(call_details, "driver_number"))]>>

\* The ways a write can go: it completes, open() raises (the file is left as
\* it was), or writerow() raises after the file was opened (and created, with
\* its header, when it did not exist).
ReportOutcomes == {"ok", "open_raises", "writerow_raises"}

NeedsHeader_always(file) == TRUE

\* file_exists = os.path.isfile(...); if not file_exists: writer.writeheader()
NeedsHeader(file) == ~file.exists

generate_report(file, call_details, outcome) ==
    IF outcome = "open_raises"
    THEN [file |-> file, raised |-> TRUE, printed |-> <<>>]
    ELSE LET head == IF NeedsHeader(file) THEN <<HeaderRow>> ELSE <<>>
             row  == IF outcome = "ok" THEN <<DataRow(call_details)>> ELSE <<>>
         IN  [file |-> [exists |-> TRUE, rows |-> file.rows \o head \o row],
              raised |-> outcome # "ok",
              printed |-> IF outcome = "ok" THEN <<"report generated">> ELSE <<>>]

-----------------------------------------------------------------------------
\* send_sms_summary(call_details)

\* Client(account_sid, auth_token) is library code: with an empty credential it
\* may refuse to construct; with two non-empty ones it constructs.
ClientOutcomes(account_sid, auth_token) ==
    IF account_sid = Str(<<>>) \/ auth_token = Str(<<>>) THEN {"ok", "raises"} ELSE {"ok"}

\* client.messages.create(...) is a request to the messaging channel
SendOutcomes == {"sent", "fails"}

summary_text_swapped(call_details) ==
    <<"Emergency Ambulance Service Summary",
      Fmt(AmbGet(call_details, "type")), Fmt(AmbGet(call_details, "driver_name")),
      Fmt(AmbGet(call_details, "car_number")), Fmt(AmbGet(call_details, "driver_number"))>>

summary_text(call_details) ==
    <<"Emergency Ambulance Service Summary",
      Fmt(AmbGet(call_details, "type")), Fmt(AmbGet(call_details, "car_number")),
      Fmt(AmbGet(call_details, "driver_name")), Fmt(AmbGet(call_details, "driver_number"))>>

\* cli is the outcome of Client(...), snd the outcome of messages.create(...)
send_sms_summary(outbox, call_details, cli, snd) ==
    IF env.sid = None \/ env.token = None \/ cli = "raises"
    THEN \* os.environ[...] or Client(...) raises before the try block
         [sms |-> outbox, raised |-> TRUE, printed |-> <<>>]
    ELSE IF env.phone = None
    THEN \* os.environ["TWILIO_PHONE_NUMBER"] raises inside the try block
         [sms |-> outbox, raised |-> FALSE, printed |-> <<"ERROR: Could not send SMS">>]
    ELSE [sms |-> Append(outbox, [to |-> Get(call_details, "user_phone"),
                                  from_ |-> env.phone[1],
                                  body |-> summary_text(call_details),
                                  delivered |-> snd = "sent"]),
          raised |-> FALSE,
          printed |-> IF snd = "sent" THEN <<"SMS summary sent">>
                                      ELSE <<"ERROR: Could not send SMS">>]

-----------------------------------------------------------------------------
\* IVCAgent

\* IVCAgent.__init__: details = {"time": datetime.now()...}; t is the reading
NewDetails(t) == "time" :> Str(Digits(t))

\* a return value (text, hangup) of respond, or an exception leaving it
Returned(text, hangup) == [raised |-> FALSE, text |-> text, hangup |-> hangup]
Raised == [raised |-> TRUE, text |-> <<>>, hangup |-> FALSE]

\* the result of a respond branch that touches neither the file nor the channel
Step(st, d, ret) ==
    [state |-> st, details |-> d, ret |-> ret,
     file |-> csvfile, sms |-> sms, printed |-> <<>>, wrote |-> <<>>]

respond_GREETING(d, user_input) ==
    Step("GET_EMERGENCY", d, Returned(<<"Hello, what is your emergency?">>, FALSE))

respond_GET_EMERGENCY(d, user_input) ==
    Step("GET_DETAILS", Put(d, "emergency_type", user_input),
         Returned(<<"I understand you have an emergency", Fmt(user_input)>>, FALSE))

respond_GET_DETAILS_wrong_field(d, user_input) ==
    Step("GET_LOCATION", Put(d, "emergency_type", user_input),
         Returned(<<"Thank you. Please tell me the address">>, FALSE))

respond_GET_DETAILS(d, user_input) ==
    Step("GET_LOCATION", Put(d, "description", user_input),
         Returned(<<"Thank you. Please tell me the address">>, FALSE))

summary(d, ambulance) ==
    <<"OK. I have booked an ambulance",
      Fmt(Get(d, "emergency_type")), Fmt(Get(d, "location")),
      ambulance.type, ambulance.car_number, ambulance.driver_name, ambulance.driver_number>>

SelectorInput_emergency(d) == GetDefault(d, "emergency_type", Str(<<>>))

\* self.details.get('description', ''): what the branch hands to assign_ambulance
SelectorInput(d) == GetDefault(d, "description", Str(<<>>))

AfterLocation_skips == "END"

\* the state the GET_LOCATION branch sets before its side effects
AfterLocation == "SUMMARY"

respond_GET_LOCATION_sms_first(d, user_input, ch) ==
    LET d1 == Put(d, "location", user_input)
        description == SelectorInput(d1)
    IN  IF description = None
        THEN [state |-> AfterLocation, details |-> d1, ret |-> Raised,
              file |-> csvfile, sms |-> sms, printed |-> <<>>, wrote |-> <<>>]
        ELSE LET ambulance == assign_ambulance(description[1], ch.plate, ch.driver, ch.n)
                 d2 == Put(d1, "ambulance", ambulance)
                 snd == send_sms_summary(sms, d2, ch.cli, ch.snd)
                 rep == generate_report(csvfile, d2, ch.rep)
             IN  IF snd.raised
                 THEN [state |-> AfterLocation, details |-> d2, ret |-> Raised,
                       file |-> csvfile, sms |-> snd.sms, printed |-> snd.printed,
                       wrote |-> <<>>]
                 ELSE [state |-> AfterLocation, details |-> d2,
                       ret |-> IF rep.raised THEN Raised
                               ELSE Returned(summary(d2, ambulance), FALSE),
                       file |-> rep.file, sms |-> snd.sms,
                       printed |-> snd.printed \o rep.printed,
                       wrote |-> IF rep.raised THEN <<>> ELSE <<d2>>]

\* ch holds the random draws and the outcomes of the file and network operations
respond_GET_LOCATION(d, user_input, ch) ==
    LET d1 == Put(d, "location", user_input)
        description == SelectorInput(d1)
    IN  IF description = None
        THEN \* assign_ambulance(None): None.lower() raises AttributeError
             [state |-> AfterLocation, details |-> d1, ret |-> Raised,
              file |-> csvfile, sms |-> sms, printed |-> <<>>, wrote |-> <<>>]
        ELSE LET ambulance == assign_ambulance(description[1], ch.plate, ch.driver, ch.n)
                 d2 == Put(d1, "ambulance", ambulance)
                 rep == generate_report(csvfile, d2, ch.rep)
                 snd == send_sms_summary(sms, d2, ch.cli, ch.snd)
             IN  IF rep.raised
                 THEN [state |-> AfterLocation, details |-> d2, ret |-> Raised,
                       file |-> rep.file, sms |-> sms, printed |-> rep.printed,
                       wrote |-> <<>>]
                 ELSE IF snd.raised
                 THEN [state |-> AfterLocation, details |-> d2, ret |-> Raised,
                       file |-> rep.file, sms |-> snd.sms,
                       printed |-> rep.printed \o snd.printed, wrote |-> <<d2>>]
                 ELSE [state |-> AfterLocation, details |-> d2,
                       ret |-> Returned(summary(d2, ambulance), FALSE),
                       file |-> rep.file, sms |-> snd.sms,
                       printed |-> rep.printed \o snd.printed, wrote |-> <<d2>>]

respond_SUMMARY(d, user_input) ==
    Step("END", d, Returned(<<"A summary of this call has been saved">>, FALSE))

respond_END_restarts(d, user_input) ==
    Step("GREETING", d, Returned(<<"Thank you for using our service. Goodbye.">>, TRUE))

respond_END(d, user_input) ==
    Step("END", d, Returned(<<"Thank you for using our service. Goodbye.">>, TRUE))

respond(st, d, user_input, ch) ==
    CASE st = "GREETING"      -> respond_GREETING(d, user_input)
      [] st = "GET_EMERGENCY" -> respond_GET_EMERGENCY(d, user_input)
      [] st = "GET_DETAILS"   -> respond_GET_DETAILS(d, user_input)
      [] st = "GET_LOCATION"  -> respond_GET_LOCATION(d, user_input, ch)
      [] st = "SUMMARY"       -> respond_SUMMARY(d, user_input)
      [] st = "END"           -> respond_END(d, user_input)

-----------------------------------------------------------------------------
\* voice(): the inbound endpoint

\* the random draws and outcomes a request can meet
Choices ==
    {[plate |-> r.plate, driver |-> r.driver, n |-> r.n,
      rep |-> o[1], cli |-> o[2], snd |-> o[3]] :
        r \in RandomDraws, o \in ReportOutcomes \X {"ok", "raises"} \X SendOutcomes}

\* only the GET_LOCATION branch draws and calls out; elsewhere one value stands
\* for all
ChoicesAt(st) ==
    IF st = "GET_LOCATION"
    THEN {ch \in Choices : ch.cli \in ClientOutcomes(env.sid, env.token)}
    ELSE {[plate |-> plate_1, driver |-> drv_Rajesh, n |-> RandLo,
           rep |-> "ok", cli |-> "ok", snd |-> "sent"]}

IsNewCall_always(st) == TRUE
IsNewCall_orEnd(st) == st \in {"GREETING", "END"}

\* `if agent.state == "GREETING"`: the test that starts a new session
IsNewCall(st) == st = "GREETING"

Render_always_listens(agent_response, hangup) ==
    <<[verb |-> "Say", text |-> agent_response],
      [verb |-> "Gather", input |-> "speech", action |-> txt_voice]>>

\* resp.say(...) then resp.hangup() or resp.gather(... action='/voice' ...)
Render(agent_response, hangup) ==
    <<[verb |-> "Say", text |-> agent_response]>> \o
    (IF hangup THEN <<[verb |-> "Hangup"]>>
               ELSE <<[verb |-> "Gather", input |-> "speech", action |-> txt_voice]>>)

NoResponse == [kind |-> "none", doc |-> <<>>]
ServerError == [kind |-> "error", doc |-> <<>>]

\* one request of call c to /voice, carrying SpeechResult = speech; calls are
\* numbered in the order in which their first requests arrive
Voice(c, speech) ==
    \E ch \in ChoicesAt(state) :
    LET fresh == IsNewCall(state)
        \* agent.__init__() then agent.details['user_phone'] = request.values.get('To')
        st0 == IF fresh THEN "GREETING" ELSE state
        d0 == IF fresh THEN Put(NewDetails(clock + 1), "user_phone", To(c)) ELSE details
        r  == respond(st0, d0, speech, ch)
    IN  /\ c <= Cardinality(started) + 1
        /\ clock' = IF fresh THEN clock + 1 ELSE clock
        /\ state' = r.state
        /\ details' = r.details
        /\ csvfile' = r.file
        /\ sms' = r.sms
        /\ printed' = r.printed
        /\ written' = written \o r.wrote
        /\ resp' = IF r.ret.raised THEN ServerError
                   ELSE [kind |-> "twiml", doc |-> Render(r.ret.text, r.ret.hangup)]
        /\ last' = [call |-> c, first |-> c \notin started, pre |-> state, input |-> speech]
        /\ started' = started \cup {c}
        /\ UNCHANGED <<env, placed, mc, selDesc, selAmb, pc>>

-----------------------------------------------------------------------------
\* make_call(user_phone_number, ngrok_url)

\* "ACxxxxxxxx"
txt_placeholder == <<65, 67, 120, 120, 120, 120, 120, 120, 120, 120>>
\* "AC123"
txt_sid == <<65, 67, 49, 50, 51>>
\* "tok"
txt_tok == <<116, 111, 107>>
\* "your_auth_token"
txt_tokph == <<121, 111, 117, 114, 95, 97, 117, 116, 104, 95, 116, 111, 107, 101, 110>>
\* "+1555"
txt_from == <<43, 49, 53, 53, 53>>
\* "+1xxxxxxxxxx"
txt_fromph == <<43, 49, 120, 120, 120, 120, 120, 120, 120, 120, 120, 120>>
\* "http://x.ngrok.io"
txt_url == <<104, 116, 116, 112, 58, 47, 47, 120, 46, 110, 103, 114, 111, 107, 46, 105, 111>>

\* the values a configuration variable can have: unset, empty, a placeholder
\* left from a template, or a real value
SidValues == {None, Str(<<>>), Str(txt_placeholder), Str(txt_sid)}
TokenValues == {None, Str(<<>>), Str(txt_tokph), Str(txt_tok)}
PhoneValues == {None, Str(<<>>), Str(txt_fromph), Str(txt_from)}
Envs == [sid : SidValues, token : TokenValues, phone : PhoneValues]

\* the environments the dialog is run in
RealEnv == [sid |-> Str(txt_sid), token |-> Str(txt_tok), phone |-> Str(txt_from)]
EnvSamples ==
    {RealEnv,
     [sid |-> None, token |-> Str(txt_tok), phone |-> Str(txt_from)],
     [sid |-> Str(txt_sid), token |-> Str(txt_tok), phone |-> None]}

\* the validation of make_call: True when the call must not be attempted
CredentialsRejected(account_sid, auth_token, twilio_phone_number) ==
    \/ Contains(account_sid, txt_placeholder)
    \/ auth_token = <<>>
    \/ twilio_phone_number = <<>>

\* client.calls.create(...) is a request to the voice platform
CallOutcomes == {"ok", "fails"}

make_call(user_phone_number, ngrok_url, cli, out) ==
    IF env.sid = None \/ env.token = None \/ env.phone = None
    THEN \* KeyError
         [placed |-> placed, mc |-> "returned",
          printed |-> <<"ERROR: Could not find Twilio credentials">>]
    ELSE IF CredentialsRejected(env.sid[1], env.token[1], env.phone[1])
    THEN [placed |-> placed, mc |-> "returned",
          printed |-> <<"ERROR: Please update the .env file">>]
    ELSE IF cli = "raises"
    THEN \* Client(...) is outside any try block
         [placed |-> placed, mc |-> "raised", printed |-> <<>>]
    ELSE [placed |-> Append(placed, [to |-> user_phone_number, from_ |-> env.phone[1],
                                     url |-> ngrok_url \o txt_voice]),
          mc |-> "returned",
          printed |-> <<"Initiating call">> \o
                      (IF out = "ok" THEN <<"Call initiated">>
                                     ELSE <<"ERROR: Could not make the call">>)]

\* the numbers the operator types
OperatorNumbers == {To(c)[1] : c \in Calls}

\* the main thread calls make_call once
MakeCall(user_phone_number, cli, out) ==
    LET r == make_call(user_phone_number, txt_url, cli, out)
    IN  /\ mc = "idle"
        /\ cli \in ClientOutcomes(env.sid, env.token)
        /\ placed' = r.placed
        /\ mc' = r.mc
        /\ printed' = r.printed
        /\ UNCHANGED <<state, details, clock, csvfile, sms, resp, last, started,
                       env, selDesc, selAmb, written, pc>>

-----------------------------------------------------------------------------
\* The dialog: requests of up to MaxCalls calls reach /voice in any order.

\* the request threads of the server
Threads == 1..NumThreads
IdleThread == [at |-> "idle", i |-> 0, call |-> 0, first |-> FALSE, input |-> None]

InitWith(envs, descs) ==
    /\ pc = [t \in Threads |-> IdleThread]
    /\ state = "GREETING"
    /\ details = NewDetails(1)
    /\ clock = 1
    /\ csvfile = [exists |-> FALSE, rows |-> <<>>]
    /\ sms = <<>>
    /\ resp = NoResponse
    /\ printed = <<>>
    /\ last = [call |-> 0, first |-> FALSE, pre |-> "GREETING", input |-> None]
    /\ started = {}
    /\ env \in envs
    /\ placed = <<>>
    /\ mc = "idle"
    /\ selDesc \in descs
    /\ selAmb = <<>>
    /\ written = <<>>

Init == InitWith(EnvSamples, {<<>>})

Next == \E c \in Calls, speech \in Utterances : Voice(c, speech)

Spec == Init /\ [][Next]_vars

\* The outbound call, in every environment.

InitCall == InitWith(Envs, {<<>>})

NextCall ==
    \E n \in OperatorNumbers, cli \in {"ok", "raises"}, out \in CallOutcomes : MakeCall(n, cli, out)

SpecCall == InitCall /\ [][NextCall]_vars

-----------------------------------------------------------------------------
\* The report file outlives the process: over the runs of the program
\* generate_report is called again and again on the same file.

\* "12 MG Road"
txt_road == <<49, 50, 32, 77, 71, 32, 82, 111, 97, 100>>

FullDetails(t, emergency, description) ==
    Put(Put(Put(Put(Put(NewDetails(t), "user_phone", To(1)),
                    "emergency_type", Str(emergency)),
                "description", Str(description)),
            "location", Str(txt_road)),
        "ambulance", assign_ambulance(description, plate_1, drv_Rajesh, RandLo))

\* the call_details of the runs: complete sessions, a session whose caller
\* said nothing, and a dict that holds the time only
SampleDetails ==
    {FullDetails(1, txt_ChestPain, txt_ChestPain),
     FullDetails(2, txt_routine, txt_routine),
     Put(Put(FullDetails(3, <<>>, <<>>), "emergency_type", None), "location", None),
     NewDetails(4)}

WriteReport(call_details, outcome) ==
    LET r == generate_report(csvfile, call_details, outcome)
    IN  /\ Len(written) < MaxWrites
        /\ csvfile' = r.file
        /\ printed' = r.printed
        /\ written' = IF r.raised THEN written ELSE Append(written, call_details)
        /\ UNCHANGED <<state, details, clock, sms, resp, last, started,
                       env, placed, mc, selDesc, selAmb, pc>>

NextLog == \E d \in SampleDetails, o \in ReportOutcomes : WriteReport(d, o)

SpecLog == Init /\ [][NextLog]_vars

-----------------------------------------------------------------------------
\* The selector on its own: assign_ambulance(selDesc) for descriptions built
\* from the keywords, from texts that miss a keyword by one character and from
\* "routine checkup", in four letter cases, with text before and after.

UpperChar(ch) == IF ch \in 97..122 THEN ch - 32 ELSE ch
UpperText(s) == [i \in 1..Len(s) |-> UpperChar(s[i])]
Capitalized(s) == [i \in 1..Len(s) |-> IF i = 1 THEN UpperChar(s[i]) ELSE s[i]]
Alternating(s) == [i \in 1..Len(s) |-> IF i % 2 = 0 THEN UpperChar(s[i]) ELSE s[i]]
CaseForms(s) == {s, UpperText(s), Capitalized(s), Alternating(s)}

NearMisses ==
    {SubSeq(k, 1, Len(k) - 1) : k \in icu_keywords} \cup
    {SubSeq(k, 2, Len(k)) : k \in icu_keywords}

BaseWords == icu_keywords \cup NearMisses \cup {txt_routine, <<>>}

\* space, "e", "S"
PadChars == {32, 101, 83}
Pads == UNION {[1..n -> PadChars] : n \in 0..MaxPad}

Descriptions ==
    {a \o w \o b : a \in Pads, b \in Pads, w \in UNION {CaseForms(k) : k \in BaseWords}}

CallAssign(draw) ==
    /\ selAmb = <<>>
    /\ selAmb' = <<assign_ambulance(selDesc, draw.plate, draw.driver, draw.n)>>
    /\ UNCHANGED <<state, details, clock, csvfile, sms, resp, printed, last, started,
                   env, placed, mc, selDesc, written, pc>>

InitSelector == InitWith({RealEnv}, Descriptions)

NextSelector == \E draw \in RandomDraws : CallAssign(draw)

SpecSelector == InitSelector /\ [][NextSelector]_vars

-----------------------------------------------------------------------------
\* Properties.

States == <<"GREETING", "GET_EMERGENCY", "GET_DETAILS", "GET_LOCATION", "SUMMARY", "END">>
Rank(st) == CHOOSE i \in 1..Len(States) : States[i] = st
\* the state after st in the fixed order; END follows itself
Successor(st) == States[IF Rank(st) = Len(States) THEN Rank(st) ELSE Rank(st) + 1]

Goodbye == <<"Thank you for using our service. Goodbye.">>
ReportRows == SelectSeq(csvfile.rows, LAMBDA r : r[1] = "row")
Collected == {"emergency_type", "description", "location"}

\* C1: every dialog step, whatever the utterance, takes the session to the
\* immediate successor of its state in the order GREETING, GET_EMERGENCY,
\* GET_DETAILS, GET_LOCATION, SUMMARY, END (END to END): nothing is skipped,
\* nothing before END is repeated, nothing goes backwards, so five steps after
\* GREETING the session is in END.
C1_StepsInOrder ==
    [][/\ state' = Successor(state)
       /\ last'.pre = state
       /\ Rank(state') >= Rank(state)]_vars

C1_Witness == state = "END" /\ last.pre = "SUMMARY" /\ last.input = None

\* C2: a session that has reached END has exactly one report row and exactly
\* one submitted notification (stated for the sessions whose ambulance was
\* assigned, in an environment where every configuration value is set).
C2_OneReportOneNotification ==
    (state = "END" /\ env = RealEnv /\ "ambulance" \in DOMAIN details) =>
        (Len(ReportRows) = 1 /\ Len(sms) = 1)

\* C3: the first turn of a second call resets the session: no emergency type,
\* description, location or ambulance, the caller's number is the second
\* call's, the opening prompt is returned and the session is in GET_EMERGENCY.
C3_SecondCallResets ==
    (last.first /\ last.call > 1) =>
        /\ state = "GET_EMERGENCY"
        /\ DOMAIN details \cap (Collected \cup {"ambulance"}) = {}
        /\ Get(details, "user_phone") = To(last.call)
        /\ resp.kind = "twiml"
        /\ resp.doc[1].text = <<"Hello, what is your emergency?">>

\* C4: once the session is in END, every further step, for any utterance,
\* returns the goodbye text with hang-up, leaves the state END, changes no
\* session field, writes no report and sends no notification.
C4_EndIsTerminal ==
    [][state = "END" =>
         /\ state' = "END"
         /\ details' = details
         /\ csvfile' = csvfile
         /\ sms' = sms
         /\ resp' = [kind |-> "twiml",
                     doc |-> <<[verb |-> "Say", text |-> Goodbye], [verb |-> "Hangup"]>>]]_vars

C4_Witness ==
    /\ state = "END" /\ last.pre = "END" /\ last.input = Str(txt_ChestPain)
    /\ Len(ReportRows) = 1

\* C5: when the notification of the GET_LOCATION turn is not delivered, the
\* turn still returns the summary prompt without hang-up, the session is in
\* SUMMARY with its fields stored and the report row of the turn is in the file.
C5_SendFailureHarmless ==
    (/\ last.pre = "GET_LOCATION"
     /\ written # <<>>
     /\ ~(\E i \in 1..Len(sms) : sms[i].delivered)) =>
        /\ resp.kind = "twiml"
        /\ resp.doc[1].text[1] = "OK. I have booked an ambulance"
        /\ resp.doc[2].verb = "Gather"
        /\ state = "SUMMARY"
        /\ Collected \subseteq DOMAIN details
        /\ ReportRows = <<DataRow(details)>>

\* a configuration value that is missing, empty or the template's placeholder
BadCredential(v) == v = None \/ v[1] = <<>> \/ Contains(v[1], txt_placeholder)

\* C6: with a missing, empty or placeholder account identifier, auth secret or
\* originating number, make_call submits no call request, reports an error and
\* returns; in every case it submits at most one call request.
C6_NoCallWithBadCredentials ==
    /\ Len(placed) <= 1
    /\ (BadCredential(env.sid) \/ BadCredential(env.token) \/ BadCredential(env.phone)) =>
          /\ placed = <<>>
          /\ mc # "raised"
          /\ mc = "returned" => (\E i \in 1..Len(printed) :
                                    printed[i] \in {"ERROR: Could not find Twilio credentials",
                                                    "ERROR: Please update the .env file"})

\* C7: starting from no file, after any sequence of report writes the file
\* holds one header row, first, then one data row per completed write, in the
\* order of the writes; a write never changes or removes a row already there.
C7_HeaderThenRows ==
    /\ [](IF csvfile.exists
          THEN /\ Len(csvfile.rows) = 1 + Len(written)
               /\ csvfile.rows[1][1] = "header"
               /\ \A i \in 1..Len(written) : csvfile.rows[i + 1] = DataRow(written[i])
          ELSE csvfile.rows = <<>> /\ written = <<>>)
    /\ [][/\ Len(csvfile'.rows) >= Len(csvfile.rows)
          /\ SubSeq(csvfile'.rows, 1, Len(csvfile.rows)) = csvfile.rows]_vars

C7_Witness ==
    /\ Len(written) = 3
    /\ written[1] # written[2]
    /\ Len(csvfile.rows) = 4

\* two characters that are the same letter in either case
SameLetter(a, b) ==
    \/ a = b
    \/ a \in 65..90 /\ b = a + 32
    \/ b \in 65..90 /\ a = b + 32
\* s contains k, letter case ignored
ContainsAnyCase(s, k) ==
    \E i \in 0..(Len(s) - Len(k)) : \A j \in 1..Len(k) : SameLetter(s[i + j], k[j])

\* C8: the selector returns the high-acuity type exactly when the description
\* contains a severity keyword in any letter case, and the basic type
\* otherwise; "chest pain" in the description gives the high-acuity type and
\* "routine checkup" gives the basic type.
C8_TypeFollowsKeywords ==
    selAmb # <<>> =>
        /\ selAmb[1].type \in {IcuType, BasicType}
        /\ selAmb[1].type = IcuType <=>
              \E k \in icu_keywords : ContainsAnyCase(selDesc, k)
        /\ ContainsAnyCase(selDesc, kw_chest_pain) => selAmb[1].type = IcuType
        /\ selDesc = txt_routine => selAmb[1].type = BasicType

C8_Witness ==
    /\ selAmb # <<>>
    /\ selAmb[1].type = IcuType
    /\ Contains(selDesc, UpperText(kw_chest_pain))

C10_SummaryHasReport ==
    (state \in {"SUMMARY", "END"} /\ "ambulance" \in DOMAIN details) =>
        Len(ReportRows) = 1

\* a field of the session that details' holds with the value it has in details
Kept(f) == f \in DOMAIN details => (f \in DOMAIN details' /\ details'[f] = details[f])
\* a field of the session that the step neither sets, changes nor removes
Untouched(f) == (f \in DOMAIN details <=> f \in DOMAIN details') /\ Kept(f)
AmbulanceFields == <<"type", "car_number", "driver_name", "driver_number">>
Greeting == <<"Hello, what is your emergency?">>

\* C11: in the GET_LOCATION turn the ambulance is assigned, then the report is
\* written, then the notification is sent, each at most once: a notification is
\* never submitted for a session without its report row, so a failed report
\* write leaves no notification; no other turn has any of these effects.
C11_ReportBeforeNotification ==
    /\ [](/\ Len(sms) <= 1
          /\ Len(ReportRows) <= 1
          /\ ReportRows # <<>> => "ambulance" \in DOMAIN details
          /\ sms # <<>> => ReportRows = <<DataRow(details)>>)
    /\ [][(\/ sms' # sms
           \/ csvfile' # csvfile
           \/ ("ambulance" \in DOMAIN details') # ("ambulance" \in DOMAIN details))
          => state = "GET_LOCATION"]_vars

C11_Witness ==
    /\ last.pre = "GET_LOCATION" /\ env = RealEnv
    /\ "ambulance" \in DOMAIN details
    /\ ReportRows = <<>> /\ resp.kind = "error"
    /\ sms = <<>>

\* the field a state's step stores the utterance in
FieldOf(st) ==
    CASE st = "GET_EMERGENCY" -> "emergency_type"
      [] st = "GET_DETAILS"   -> "description"
      [] st = "GET_LOCATION"  -> "location"
      [] OTHER                -> "none"

\* C12: the GET_EMERGENCY step sets emergency type, the GET_DETAILS step
\* description and the GET_LOCATION step location, each to the utterance of
\* the turn and each while the field is still unset; every other collected
\* field is left as it is, and the GREETING, SUMMARY and END steps change none.
C12_OwnFieldOnly ==
    [][\A f \in Collected :
          IF f = FieldOf(state)
          THEN /\ f \notin DOMAIN details
               /\ f \in DOMAIN details'
               /\ details'[f] = last'.input
          ELSE Untouched(f)]_vars

C12_Witness ==
    /\ state = "END" /\ last.pre = "END"
    /\ Get(details, "emergency_type") = Str(txt_ChestPain)
    /\ Get(details, "description") = Str(txt_routine)
    /\ Get(details, "location") = Str(<<>>)

\* C13: the ambulance assignment appears in the GET_LOCATION turn and never
\* changes afterwards; the report row, the notification body and the spoken
\* summary carry its type, vehicle, driver name and driver number.
C13_OneAssignment ==
    /\ [](IF "ambulance" \in DOMAIN details
          THEN LET a == details["ambulance"]
                   fields == [i \in 1..4 |-> a[AmbulanceFields[i]]]
               IN  /\ \A i \in 1..Len(ReportRows) :
                         <<ReportRows[i][2].ambulance_type,
                           ReportRows[i][2].ambulance_car_number,
                           ReportRows[i][2].driver_name,
                           ReportRows[i][2].driver_number>> = fields
                   /\ \A i \in 1..Len(sms) : SubSeq(sms[i].body, 2, 5) = fields
                   /\ (last.pre = "GET_LOCATION" /\ resp.kind = "twiml") =>
                         SubSeq(resp.doc[1].text, 4, 7) = fields
          ELSE ReportRows = <<>> /\ sms = <<>>)
    /\ [][/\ Kept("ambulance")
          /\ ("ambulance" \notin DOMAIN details /\ "ambulance" \in DOMAIN details')
                => state = "GET_LOCATION"]_vars

C13_Witness ==
    /\ state = "END" /\ last.pre = "END"
    /\ Len(ReportRows) = 1 /\ Len(sms) = 1
    /\ details["ambulance"].type = IcuType
    /\ details["ambulance"].car_number = plate_2

\* C14: whatever the requests carried (a text, the empty text or no utterance),
\* the GET_LOCATION turn returns the summary prompt, unless the report write
\* or the notification send of the turn failed.
C14_NoUtteranceFails ==
    last.pre = "GET_LOCATION" =>
        \/ /\ resp.kind = "twiml"
           /\ resp.doc[1].text[1] = "OK. I have booked an ambulance"
        \/ "ambulance" \in DOMAIN details /\ written = <<>>
        \/ written # <<>> /\ ~(\E i \in 1..Len(sms) : sms[i].delivered)

\* C15: the session is shared by all calls: a request of a second call that
\* arrives after the first request of the first call starts no session, it
\* advances the first call's one and keeps its fields and its number, and the
\* second call never hears the opening prompt.
C15_SharedSession ==
    /\ [](last.call > 1 =>
            /\ Get(details, "user_phone") = To(1)
            /\ resp.kind = "twiml" => resp.doc[1].text # Greeting
            /\ \A i \in 1..Len(ReportRows) : ReportRows[i][2].user_phone = To(1)[1])
    /\ [][last'.call > 1 =>
            /\ state' = Successor(state)
            /\ clock' = clock
            /\ \A f \in DOMAIN details : Kept(f)]_vars

\* the one report row holds the first call's emergency type and number and the
\* location said in the second call's first request
C15_Witness ==
    /\ last.call = 2 /\ last.first /\ last.pre = "GET_LOCATION"
    /\ last.input = Str(txt_routine)
    /\ Len(ReportRows) = 1
    /\ ReportRows[1][2].user_phone = To(1)[1]
    /\ ReportRows[1][2].emergency_type = txt_ChestPain
    /\ ReportRows[1][2].location = txt_routine

\* C17: the caller's number is the To field of the request handled in
\* GREETING; a request handled in any other state leaves it as it is; the
\* report row's caller column and the notification's destination are that number.
C17_NumberFromGreeting ==
    /\ [](/\ \A i \in 1..Len(ReportRows) :
                ReportRows[i][2].user_phone = Cell(Get(details, "user_phone"))
          /\ \A i \in 1..Len(sms) : sms[i].to = Get(details, "user_phone"))
    /\ [][IF state = "GREETING"
          THEN Get(details', "user_phone") = To(last'.call)
          ELSE Untouched("user_phone")]_vars

C17_Witness ==
    /\ last.call = 2 /\ last.pre = "GET_LOCATION"
    /\ Len(sms) = 1 /\ sms[1].to = To(1)
    /\ Len(ReportRows) = 1 /\ ReportRows[1][2].user_phone = To(1)[1]

\* C18: the ambulance type of a session is a function of its description
\* alone: high-acuity exactly when the description holds a severity keyword
\* (any letter case), whatever the emergency type, location and number are.
C18_TypeFromDescriptionOnly ==
    "ambulance" \in DOMAIN details =>
        /\ details["description"] # None
        /\ details["ambulance"].type \in {IcuType, BasicType}
        /\ details["ambulance"].type = IcuType <=>
              \E k \in icu_keywords : ContainsAnyCase(details["description"][1], k)

\* an emergency type with a severity keyword, a description without: basic type
C18_Witness ==
    /\ "ambulance" \in DOMAIN details
    /\ details["emergency_type"] = Str(txt_ChestPain)
    /\ details["description"] = Str(txt_routine)
    /\ details["ambulance"].type = BasicType

\* the number a text of decimal digits denotes
RECURSIVE DigitsValue(_)
DigitsValue(s) ==
    IF s = <<>> THEN 0 ELSE 10 * DigitsValue(SubSeq(s, 1, Len(s) - 1)) + (s[Len(s)] - 48)

\* C19: for every description the selector returns one of the four plates, one
\* of the four driver names, and a driver number made of the prefix
\* "+91 98765 " and exactly five digits denoting a number from 10000 to 99999.
C19_PoolsAndSuffix ==
    selAmb # <<>> =>
        LET a == selAmb[1]
            suffix == SubSeq(a.driver_number, Len(DriverPrefix) + 1, Len(a.driver_number))
        IN  /\ a.car_number \in {plate_1, plate_2, plate_3, plate_4}
            /\ a.driver_name \in {drv_Rajesh, drv_Suresh, drv_Anil, drv_Vikas}
            /\ SubSeq(a.driver_number, 1, Len(DriverPrefix)) = DriverPrefix
            /\ Len(suffix) = 5
            /\ \A i \in 1..Len(suffix) : suffix[i] \in 48..57
            /\ DigitsValue(suffix) \in 10000..99999

C19_Witness ==
    /\ selAmb # <<>>
    /\ selAmb[1].type = BasicType
    /\ selAmb[1].driver_number = DriverPrefix \o <<57, 57, 57, 57, 57>>
    /\ selAmb[1].car_number = plate_2

-----------------------------------------------------------------------------
\* Requests served at the same time. app.run() starts the development server
\* of the web framework, which hands every request to a thread of its own, and
\* agent is one unlocked global: the comparisons of respond's if/elif chain and
\* the branch they select are separate steps of a thread, and the steps of
\* different threads interleave. (The body of a branch is taken as one step.)

BranchNames == <<"GREETING", "GET_EMERGENCY", "GET_DETAILS", "GET_LOCATION", "SUMMARY", "END">>

\* the utterance of the requests, all of one call
ThreadUtterances == {Str(txt_ChestPain)}

\* the draws of a branch; the file and the channel work
ThreadChoices(i) ==
    IF BranchNames[i] = "GET_LOCATION"
    THEN {[plate |-> r.plate, driver |-> r.driver, n |-> r.n,
           rep |-> "ok", cli |-> "ok", snd |-> "sent"] : r \in RandomDraws}
    ELSE {[plate |-> plate_1, driver |-> drv_Rajesh, n |-> RandLo,
           rep |-> "ok", cli |-> "ok", snd |-> "sent"]}

\* voice() up to the call of respond: the GREETING test and the reset
Arrive(t, c, speech) ==
    LET fresh == IsNewCall(state)
    IN  /\ pc[t].at = "idle"
        /\ state' = IF fresh THEN "GREETING" ELSE state
        /\ details' = IF fresh THEN Put(NewDetails(clock + 1), "user_phone", To(c))
                               ELSE details
        /\ clock' = IF fresh THEN clock + 1 ELSE clock
        /\ started' = started \cup {c}
        /\ pc' = [pc EXCEPT ![t] = [at |-> "test", i |-> 1, call |-> c,
                                    first |-> c \notin started, input |-> speech]]
        /\ UNCHANGED <<csvfile, sms, resp, printed, last, env, placed, mc,
                       selDesc, selAmb, written>>

\* one comparison `self.state == ...` of the if/elif chain of respond
Test(t) ==
    /\ pc[t].at = "test"
    /\ IF state = BranchNames[pc[t].i]
       THEN pc' = [pc EXCEPT ![t].at = "body"] /\ UNCHANGED <<resp, last>>
       ELSE IF pc[t].i < Len(BranchNames)
       THEN pc' = [pc EXCEPT ![t].i = pc[t].i + 1] /\ UNCHANGED <<resp, last>>
       ELSE \* no branch taken: respond returns None and voice cannot unpack it
            /\ pc' = [pc EXCEPT ![t] = IdleThread]
            /\ resp' = ServerError
            /\ last' = [call |-> pc[t].call, first |-> pc[t].first,
                        pre |-> state, input |-> pc[t].input]
    /\ UNCHANGED <<state, details, clock, csvfile, sms, printed, started, env,
                   placed, mc, selDesc, selAmb, written>>

\* the branch the thread has entered, then the rest of voice()
Body(t) ==
    /\ pc[t].at = "body"
    /\ \E ch \in ThreadChoices(pc[t].i) :
        LET r == respond(BranchNames[pc[t].i], details, pc[t].input, ch)
        IN
        /\ state' = r.state
        /\ details' = r.details
        /\ csvfile' = r.file
        /\ sms' = r.sms
        /\ printed' = r.printed
        /\ written' = written \o r.wrote
        /\ resp' = IF r.ret.raised THEN ServerError
                   ELSE [kind |-> "twiml", doc |-> Render(r.ret.text, r.ret.hangup)]
        /\ last' = [call |-> pc[t].call, first |-> pc[t].first,
                    pre |-> BranchNames[pc[t].i], input |-> pc[t].input]
        /\ pc' = [pc EXCEPT ![t] = IdleThread]
        /\ UNCHANGED <<clock, started, env, placed, mc, selDesc, selAmb>>

InitThreads == InitWith({RealEnv}, {<<>>})

NextThreads ==
    \E t \in Threads :
        \/ \E speech \in ThreadUtterances : Arrive(t, 1, speech)
        \/ Test(t)
        \/ Body(t)

SpecThreads == InitThreads /\ [][NextThreads]_vars

\* C16: requests are handled one at a time, so that also when two requests of
\* one session arrive at the same moment the session gets at most one report
\* row, one notification and one ambulance assignment.
C16_OneAtATime ==
    /\ Len(ReportRows) <= 1
    /\ Len(sms) <= 1

====
